---- MODULE Spec2Model ----
(***************************************************************************)
(* better-chess.js: the analysis engine (moveInfo and its helpers) and the *)
(* BetterChess class (moveAndAnalyze, getAnalysisAt, the material ledger). *)
(*                                                                         *)
(* The board engine (chess.js) is the collaborator the code queries; its   *)
(* operations are modelled here as operators named after the calls the     *)
(* code makes (get, attackers, moves, move, fen, isStalemate).             *)
(*                                                                         *)
(* A square is <<file, rank>>, file 1..8 for 'a'..'h', rank 1..8.          *)
(* A FEN is the record of the fields the code's behaviour depends on:      *)
(* board, side to move, castling rights, en passant square.  The two move  *)
(* counters of a FEN are left out: they are a function of the move list    *)
(* and no comparison or branch of the code distinguishes two positions by  *)
(* them alone.                                                             *)
(***************************************************************************)
EXTENDS Integers, Sequences, FiniteSets, TLC

VARIABLES pos, history, material, analysis

vars == <<pos, history, material, analysis>>

(***************************************************************************)
(* Squares and pieces                                                      *)
(***************************************************************************)
Files == 1..8
Ranks == 1..8
Squares == Files \X Ranks
NoSquare == <<0, 0>>

Colors == {"w", "b"}
Empty == [type |-> "none", color |-> "none"]

Piece(t, c) == [type |-> t, color |-> c]

swapColor(c) == IF c = "w" THEN "b" ELSE "w"

OnBoard(f, r) == f >= 1 /\ f <= 8 /\ r >= 1 /\ r <= 8

Abs(x) == IF x < 0 THEN -x ELSE x
Sgn(x) == IF x < 0 THEN -1 ELSE IF x > 0 THEN 1 ELSE 0
Max(a, b) == IF a > b THEN a ELSE b

\* The order in which the board engine walks the board: a8, b8, ..., h8, a7, ..., h1.
SquaresA8H1 == [i \in 1..64 |-> <<((i - 1) % 8) + 1, 8 - ((i - 1) \div 8)>>]

\* A board is the 64 squares a1, b1, ..., h1, a2, ..., h8, numbered 1..64.
Index(s) == 8 * (s[2] - 1) + s[1]

pieceAt(board, s) == board[Index(s)]

RECURSIVE Flatten(_)
Flatten(ss) == IF ss = <<>> THEN <<>> ELSE Head(ss) \o Flatten(Tail(ss))

SeqToSet(s) == {s[i] : i \in 1..Len(s)}

(***************************************************************************)
(* Board engine: attacks                                                   *)
(***************************************************************************)
\* No piece stands strictly between from and to (which share a line).
ClearPath(board, from, to) ==
    LET sx == Sgn(to[1] - from[1])
        sy == Sgn(to[2] - from[2])
        n  == Max(Abs(to[1] - from[1]), Abs(to[2] - from[2]))
    IN \A k \in 1..(n - 1) : pieceAt(board, <<from[1] + k * sx, from[2] + k * sy>>) = Empty

\* The piece standing on from attacks the square to (pins are not considered).
PieceAttacks(board, from, to) ==
    LET p   == pieceAt(board, from)
        df  == to[1] - from[1]
        dr  == to[2] - from[2]
        adf == Abs(df)
        adr == Abs(dr)
    IN /\ from # to
       /\ CASE p.type = "p" -> adf = 1 /\ dr = (IF p.color = "w" THEN 1 ELSE -1)
            [] p.type = "n" -> (adf = 1 /\ adr = 2) \/ (adf = 2 /\ adr = 1)
            [] p.type = "k" -> adf <= 1 /\ adr <= 1
            [] p.type = "b" -> adf = adr
            [] p.type = "r" -> df = 0 \/ dr = 0
            [] p.type = "q" -> adf = adr \/ df = 0 \/ dr = 0
            [] OTHER -> FALSE
       /\ p.type \in {"b", "r", "q"} => ClearPath(board, from, to)

\* chess.attackers(square, color): the squares of the pieces of that colour
\* attacking the square, in board-walk order.
attackers(board, square, color) ==
    SelectSeq(SquaresA8H1,
              LAMBDA from : pieceAt(board, from).color = color /\ PieceAttacks(board, from, square))

isAttacked(board, square, color) ==
    \E from \in Squares : pieceAt(board, from).color = color /\ PieceAttacks(board, from, square)

KingSquare(board, color) == CHOOSE s \in Squares : pieceAt(board, s) = Piece("k", color)

isKingAttacked(board, color) == isAttacked(board, KingSquare(board, color), swapColor(color))

\* chess.get(square)
get(chess, square) == pieceAt(chess.board, square)

(***************************************************************************)
(* Board engine: move generation                                           *)
(***************************************************************************)
PROMOTIONS == <<"n", "b", "r", "q">>

Move(c, from, to, piece, captured, promotion, flags) ==
    [color |-> c, from |-> from, to |-> to, piece |-> piece, captured |-> captured,
     promotion |-> promotion, flags |-> flags]

\* addMove: a pawn reaching the last rank yields one move per promotion kind.
addMove(c, from, to, piece, captured, flags) ==
    IF piece = "p" /\ (to[2] = 1 \/ to[2] = 8)
    THEN [i \in 1..Len(PROMOTIONS) |->
            Move(c, from, to, piece, captured, PROMOTIONS[i], flags \cup {"p"})]
    ELSE <<Move(c, from, to, piece, captured, "none", flags)>>

PawnCaptureFiles(c) == IF c = "w" THEN <<-1, 1>> ELSE <<1, -1>>

PawnMoves(chess, from) ==
    LET us   == chess.turn
        them == swapColor(us)
        fwd  == IF us = "w" THEN 1 ELSE -1
        f    == from[1]
        r    == from[2]
        one  == <<f, r + fwd>>
        two  == <<f, r + 2 * fwd>>
        second == IF us = "w" THEN 2 ELSE 7
        pushes ==
            IF OnBoard(one[1], one[2]) /\ pieceAt(chess.board, one) = Empty
            THEN addMove(us, from, one, "p", "none", {"n"})
                 \o (IF r = second /\ pieceAt(chess.board, two) = Empty
                     THEN addMove(us, from, two, "p", "none", {"b"})
                     ELSE <<>>)
            ELSE <<>>
        capture(j) ==
            LET to == <<f + PawnCaptureFiles(us)[j], r + fwd>>
            IN IF ~OnBoard(to[1], to[2]) THEN <<>>
               ELSE IF pieceAt(chess.board, to).color = them
                    THEN addMove(us, from, to, "p", pieceAt(chess.board, to).type, {"c"})
                    ELSE IF to = chess.ep
                         THEN addMove(us, from, to, "p", "p", {"e"})
                         ELSE <<>>
    IN pushes \o capture(1) \o capture(2)

\* PIECE_OFFSETS of the board engine, as <<file step, rank step>>.
PieceOffsets(t) ==
    CASE t = "n" -> << <<-2, 1>>, <<-1, 2>>, <<1, 2>>, <<2, 1>>,
                       <<2, -1>>, <<1, -2>>, <<-1, -2>>, <<-2, -1>> >>
      [] t = "b" -> << <<-1, 1>>, <<1, 1>>, <<1, -1>>, <<-1, -1>> >>
      [] t = "r" -> << <<0, 1>>, <<1, 0>>, <<0, -1>>, <<-1, 0>> >>
      [] OTHER   -> << <<-1, 1>>, <<0, 1>>, <<1, 1>>, <<1, 0>>,
                       <<1, -1>>, <<0, -1>>, <<-1, -1>>, <<-1, 0>> >>

RECURSIVE Slide(_, _, _, _, _)
Slide(chess, from, cur, d, t) ==
    LET us == chess.turn
        to == <<cur[1] + d[1], cur[2] + d[2]>>
    IN IF ~OnBoard(to[1], to[2]) THEN <<>>
       ELSE IF pieceAt(chess.board, to) = Empty
            THEN addMove(us, from, to, t, "none", {"n"})
                 \o (IF t = "n" \/ t = "k" THEN <<>> ELSE Slide(chess, from, to, d, t))
            ELSE IF pieceAt(chess.board, to).color = us THEN <<>>
                 ELSE addMove(us, from, to, t, pieceAt(chess.board, to).type, {"c"})

PieceMoves(chess, from) ==
    LET t == pieceAt(chess.board, from).type
    IN IF t = "p" THEN PawnMoves(chess, from)
       ELSE Flatten([i \in 1..Len(PieceOffsets(t)) |->
                        Slide(chess, from, from, PieceOffsets(t)[i], t)])

\* The squares between king and rook are empty and the king neither stands
\* on, passes over nor lands on an attacked square.
canCastle(chess, k, right, between, crossed) ==
    /\ right \in chess.castling
    /\ \A d \in between : pieceAt(chess.board, <<k[1] + d, k[2]>>) = Empty
    /\ \A d \in crossed :
          ~isAttacked(chess.board, <<k[1] + d, k[2]>>, swapColor(chess.turn))

castlingFrom(chess, k) ==
    (IF canCastle(chess, k, IF chess.turn = "w" THEN "K" ELSE "k", {1, 2}, {0, 1, 2})
     THEN <<Move(chess.turn, k, <<k[1] + 2, k[2]>>, "k", "none", "none", {"k"})>> ELSE <<>>)
    \o (IF canCastle(chess, k, IF chess.turn = "w" THEN "Q" ELSE "q", {-1, -2, -3}, {0, -1, -2})
        THEN <<Move(chess.turn, k, <<k[1] - 2, k[2]>>, "k", "none", "none", {"q"})>> ELSE <<>>)

CastlingMoves(chess) == castlingFrom(chess, KingSquare(chess.board, chess.turn))

\* The board after a move (pieces only): the mover leaves its square and lands
\* (promoted, when it promotes); an en passant capture removes the pawn beside
\* the origin; castling moves the rook over the king.
makeBoard(board, m) ==
    LET moved == IF m.promotion # "none" THEN Piece(m.promotion, m.color)
                 ELSE pieceAt(board, m.from)
        rank  == m.from[2]
        base  == [board EXCEPT ![Index(m.from)] = Empty, ![Index(m.to)] = moved]
    IN IF "e" \in m.flags THEN [base EXCEPT ![Index(<<m.to[1], rank>>)] = Empty]
       ELSE IF "k" \in m.flags
            THEN [base EXCEPT ![Index(<<8, rank>>)] = Empty,
                              ![Index(<<6, rank>>)] = Piece("r", m.color)]
       ELSE IF "q" \in m.flags
            THEN [base EXCEPT ![Index(<<1, rank>>)] = Empty,
                              ![Index(<<4, rank>>)] = Piece("r", m.color)]
       ELSE base

\* Castling rights lost by a move: the king moved, a rook left its corner,
\* or a rook was captured on its corner.
castlingLost(m) ==
    (IF m.piece = "k" THEN (IF m.color = "w" THEN {"K", "Q"} ELSE {"k", "q"}) ELSE {})
    \cup (IF m.from = <<8, 1>> \/ m.to = <<8, 1>> THEN {"K"} ELSE {})
    \cup (IF m.from = <<1, 1>> \/ m.to = <<1, 1>> THEN {"Q"} ELSE {})
    \cup (IF m.from = <<8, 8>> \/ m.to = <<8, 8>> THEN {"k"} ELSE {})
    \cup (IF m.from = <<1, 8>> \/ m.to = <<1, 8>> THEN {"q"} ELSE {})

\* chess.move applied to a position: board, turn, castling rights, en passant square.
makeMove(chess, m) ==
    [board    |-> makeBoard(chess.board, m),
     turn     |-> swapColor(chess.turn),
     castling |-> chess.castling \ castlingLost(m),
     ep       |-> IF "b" \in m.flags
                  THEN <<m.to[1], IF m.color = "w" THEN 3 ELSE 6>>
                  ELSE NoSquare]

\* _moves({legal: false}): the pseudo-legal moves of the pieces on the given
\* squares, in board-walk order, castling last.
pseudoMoves(chess, froms) ==
    LET us == chess.turn
    IN Flatten([i \in 1..Len(froms) |->
                  IF pieceAt(chess.board, froms[i]).color = us
                  THEN PieceMoves(chess, froms[i]) ELSE <<>>])
       \o (IF \E i \in 1..Len(froms) : pieceAt(chess.board, froms[i]) = Piece("k", us)
           THEN CastlingMoves(chess) ELSE <<>>)

\* A pseudo-legal move is legal when it does not leave the mover's king attacked.
isLegal(chess, m) == ~isKingAttacked(makeBoard(chess.board, m), chess.turn)

legalMoves(chess, froms) ==
    SelectSeq(pseudoMoves(chess, froms), LAMBDA m : isLegal(chess, m))

\* chess.moves({verbose: true})
moves(chess) == legalMoves(chess, SquaresA8H1)

\* chess.moves({square, verbose: true})
movesFrom(chess, square) == legalMoves(chess, <<square>>)

\* moves().length === 0
noMoves(chess) ==
    \A m \in SeqToSet(pseudoMoves(chess, SquaresA8H1)) : ~isLegal(chess, m)

inCheck(chess) == isKingAttacked(chess.board, chess.turn)

isCheckmate(chess) == inCheck(chess) /\ noMoves(chess)

isStalemate(chess) == ~inCheck(chess) /\ noMoves(chess)

\* The squares from which a pawn of the side to move could capture en passant.
besideEp(chess) ==
    SelectSeq(<< <<chess.ep[1] + 1, IF chess.turn = "w" THEN 5 ELSE 4>>,
                 <<chess.ep[1] - 1, IF chess.turn = "w" THEN 5 ELSE 4>> >>,
              LAMBDA s : OnBoard(s[1], s[2]))

\* chess.fen(): the en passant square is printed only when a pawn of the side
\* to move stands beside the pawn that just advanced and may legally capture it.
fen(chess) ==
    [board    |-> chess.board,
     turn     |-> chess.turn,
     castling |-> chess.castling,
     ep       |-> IF /\ chess.ep # NoSquare
                     /\ \E m \in SeqToSet(legalMoves(chess, besideEp(chess))) :
                           "e" \in m.flags
                  THEN chess.ep ELSE NoSquare]

\* validateFen, the one criterion that depends on the side to move: an en
\* passant square on rank 3 with white to move, or on rank 6 with black to move.
validFen(f) ==
    ~(f.ep # NoSquare /\ ((f.ep[2] = 3 /\ f.turn = "w") \/ (f.ep[2] = 6 /\ f.turn = "b")))

\* new Chess(fen)
load(f) == f

(***************************************************************************)
(* utils.ts: the analysis engine                                           *)
(***************************************************************************)
PIECE_VALS == [p |-> 1, n |-> 3, b |-> 3, r |-> 5, q |-> 9, k |-> 100]

PieceInEffect(at, name, color, atts, defs) ==
    [at |-> at, name |-> name, color |-> color, attackers |-> atts, defenders |-> defs]

\* null / undefined where a PieceInEffect is expected
NullPiece == PieceInEffect(NoSquare, "none", "none", <<>>, <<>>)

\* undefined where a FEN is expected (no previous position)
NoFen == [board |-> [i \in 1..64 |-> Empty], turn |-> "none", castling |-> {}, ep |-> NoSquare]

\* undefined where a move is expected (no move matched)
NoMove == Move("none", NoSquare, NoSquare, "none", "none", "none", {})

\* reachableOf without blackReachable: the partition of C4 rules it out.
reachableOfWhiteOnly(chess, square) == attackers(chess.board, square, "w")

\* [...whiteReachable, ...blackReachable]
reachableOf(chess, square) ==
    attackers(chess.board, square, "w") \o attackers(chess.board, square, "b")

\* The returned object: each kept sub-descriptor goes to defenders when the
\* piece on its square has the colour of the described piece, else to attackers.
describe(chess, square, piece, subs) ==
    PieceInEffect(square, piece.type, piece.color,
                  SelectSeq(subs, LAMBDA sub : get(chess, sub.at).color # piece.color),
                  SelectSeq(subs, LAMBDA sub : get(chess, sub.at).color = piece.color))

RECURSIVE buildPieceInEffect(_, _, _)
\* buildPieceInEffect(square, fen, depth) for each square of a list.
effectsAt(squares, f, depth) ==
    [i \in 1..Len(squares) |-> buildPieceInEffect(squares[i], f, depth)]

buildPieceInEffect(square, f, depth) ==
    IF get(load(f), square) = Empty THEN NullPiece
    ELSE describe(load(f), square, get(load(f), square),
                  \* at depth 0 every sub is null and every entry is skipped
                  IF depth > 0
                  THEN SelectSeq(effectsAt(SelectSeq(reachableOf(load(f), square),
                                                     LAMBDA from : get(load(f), from) # Empty),
                                           f, 0),
                                 LAMBDA sub : sub # NullPiece)
                  ELSE <<>>)

\* The while loop of _getPiecesAlongRay, from the square <<x, y>> on.
RECURSIVE rayLoop(_, _, _, _, _, _, _)
\* The body of the loop on an occupied square whose descriptor is pieceEffect.
rayPush(chess, x, y, dx, dy, f, piecesOnRay, pieceEffect) ==
    IF pieceEffect = NullPiece THEN piecesOnRay
    ELSE IF Len(piecesOnRay) + 1 = 2 THEN Append(piecesOnRay, pieceEffect)
    ELSE rayLoop(chess, x + dx, y + dy, dx, dy, f, Append(piecesOnRay, pieceEffect))

rayLoop(chess, x, y, dx, dy, f, piecesOnRay) ==
    IF ~(x >= 1 /\ x <= 8 /\ y >= 1 /\ y <= 8) THEN piecesOnRay
    ELSE IF get(chess, <<x, y>>) # Empty
         THEN rayPush(chess, x, y, dx, dy, f, piecesOnRay,
                      buildPieceInEffect(<<x, y>>, f, 0))
         ELSE rayLoop(chess, x + dx, y + dy, dx, dy, f, piecesOnRay)

\* A scan that starts on the start square itself: the scan of C9 rules it out.
getPiecesAlongRayFromStart(chess, startSquare, dx, dy, f) ==
    rayLoop(chess, startSquare[1], startSquare[2], dx, dy, f, <<>>)

getPiecesAlongRay(chess, startSquare, dx, dy, f) ==
    rayLoop(chess, startSquare[1] + dx, startSquare[2] + dy, dx, dy, f, <<>>)

(***************************************************************************)
(* moveInfo, step by step                                                  *)
(***************************************************************************)
\* array.find: the first element, or what stands for undefined.
firstOr(found, undefined) == IF found = <<>> THEN undefined ELSE found[1]

\* moves.find(m => c.move(m) && c.fen() === fen): the first legal move of the
\* previous position that produces the current FEN.
findMove(f, prevFen) ==
    firstOr(SelectSeq(moves(load(prevFen)),
                      LAMBDA m : fen(makeMove(load(prevFen), m)) = f),
            NoMove)

\* The check marks of moveObj.san: "#" for mate, "+" for check, "" otherwise.
sanMark(prevFen, moveObj) ==
    LET after == makeMove(load(prevFen), moveObj)
    IN IF inCheck(after) THEN (IF noMoves(after) THEN "#" ELSE "+") ELSE ""

\* The type set from the matched move's flags, then from the marks of its SAN.
typeFrom(moveObj, mark) ==
    IF mark = "#" THEN "checkmate"
    ELSE IF mark = "+" THEN "check"
    ELSE IF "p" \in moveObj.flags THEN "promotion"
    ELSE IF "c" \in moveObj.flags \/ moveObj.captured # "none" THEN "capture"
    ELSE IF "e" \in moveObj.flags THEN "enPassant"
    ELSE IF "k" \in moveObj.flags \/ "q" \in moveObj.flags THEN "castling"
    ELSE "normal"

flagType(prevFen, moveObj) == typeFrom(moveObj, sanMark(prevFen, moveObj))

\* The captured piece: what stood on the move's destination in the previous position.
retagged(eff, capturedPieceSquare, captured) ==
    IF captured # Empty /\ eff # NullPiece
    THEN [eff EXCEPT !.at = capturedPieceSquare, !.name = captured.type]
    ELSE NullPiece

capturedPieceOf(prevFen, moveObj) ==
    retagged(buildPieceInEffect(moveObj.to, prevFen, 0), moveObj.to,
             get(load(prevFen), moveObj.to))

defenseOf(numAttackers, numDefenders) ==
    IF numDefenders = 0 /\ numAttackers > 0 THEN "undefended"
    ELSE IF numDefenders > 0 /\ numAttackers = 0 THEN "overdefended"
    ELSE IF numDefenders > 0 /\ numAttackers > 0
         THEN IF numDefenders > numAttackers THEN "overdefended"
              ELSE IF numDefenders < numAttackers THEN "underdefended"
              ELSE "defended"
    ELSE "defended"

FianchettoSquares == { <<2, 2>>, <<7, 2>>, <<2, 7>>, <<7, 7>> }

\* chess.get of a square that may lie off the board (undefined there).
getOrNone(chess, f, r) == IF OnBoard(f, r) THEN get(chess, <<f, r>>) ELSE Empty

isFianchetto(chess, pieceSquare) ==
    LET piece == get(chess, pieceSquare)
        file == pieceSquare[1]
        rank == pieceSquare[2]
        adder == IF piece.color = "w" THEN 1 ELSE -1
        frontPawn == getOrNone(chess, file, rank + adder)
        frontPawnPlusOne == getOrNone(chess, file, rank + adder * 2)
        isFianchettoPawnPresent(pawn) == pawn.type = "p" /\ pawn.color = piece.color
    IN /\ piece.type = "b"
       /\ pieceSquare \in FianchettoSquares
       /\ isFianchettoPawnPresent(frontPawn) \/ isFianchettoPawnPresent(frontPawnPlusOne)

\* The move type: flags and SAN of the matched move, then the stalemate test,
\* then the attacker count, then the fianchetto test, each overwriting the last.
typeOf(pieceSquare, f, prevFen, moveObj, numAttackers) ==
    LET chess == load(f)
        t0 == IF moveObj # NoMove THEN flagType(prevFen, moveObj) ELSE "normal"
        t1 == IF isStalemate(chess) THEN "stalemate" ELSE t0
        t2 == IF numAttackers > 0 THEN "attacking" ELSE t1
    IN IF isFianchetto(chess, pieceSquare) THEN "fianchetto" ELSE t2

\* The order of the 64-square scan: a1, b1, ..., h1, a2, ..., h8.
ScanSquares == [i \in 1..64 |-> <<((i - 1) % 8) + 1, ((i - 1) \div 8) + 1>>]

\* The depth-1 descriptors of the occupied squares other than the queried
\* one, in scan order.
scanEffects(f, pieceSquare) ==
    SelectSeq(effectsAt(SelectSeq(ScanSquares,
                                  LAMBDA sq : get(load(f), sq) # Empty /\ sq # pieceSquare),
                        f, 1),
              LAMBDA eff : eff # NullPiece)

isDefendedFrom(eff, pieceSquare) ==
    \E i \in 1..Len(eff.defenders) : eff.defenders[i].at = pieceSquare

defendsOf(effs, pieceSquare) ==
    SelectSeq(effs, LAMBDA eff : isDefendedFrom(eff, pieceSquare) /\ eff.name # "k")

\* Hanging as merely attacked: the census of C7 rules it out.
isHangingAttacked(eff) == Len(eff.attackers) > 0

isHanging(eff) == Len(eff.attackers) > 0 /\ Len(eff.defenders) = 0

hangingPiecesOf(f, effs) ==
    [c \in Colors |->
        SelectSeq(effs, LAMBDA eff : isHanging(eff) /\ get(load(f), eff.at).color = c)]

\* chess.fen().replace(/\s[wb]\s/, ` ${piece.color} `)
alterFenOf(f, color) == [fen(load(f)) EXCEPT !.turn = color]

\* The legal moves of the piece when its own side is to move.
pieceReachableOf(f, pieceSquare) ==
    movesFrom(load(alterFenOf(f, get(load(f), pieceSquare).color)), pieceSquare)

\* move.to of each move of a list.
targetSquares(ms) == [i \in 1..Len(ms) |-> ms[i].to]

\* attacks resolved at depth 1: the depth rule of C5 rules it out.
attacksOfDepthOne(f, pieceSquare) ==
    effectsAt(targetSquares(
                  SelectSeq(pieceReachableOf(f, pieceSquare),
                            LAMBDA move : /\ get(load(f), move.to) # Empty
                                          /\ get(load(f), move.to).color
                                                # get(load(f), pieceSquare).color)),
              f, 1)

attacksOf(f, pieceSquare) ==
    SelectSeq(effectsAt(targetSquares(
                            SelectSeq(pieceReachableOf(f, pieceSquare),
                                      LAMBDA move : get(load(f), move.to) # Empty)),
                        f, 0),
              LAMBDA targetEffect :
                  /\ targetEffect # NullPiece
                  /\ get(load(f), targetEffect.at).color # get(load(f), pieceSquare).color)

Tactic(name, targets) == [tactic |-> name, targets |-> targets]

forksOf(attacks) == IF Len(attacks) > 1 THEN <<Tactic("fork", attacks)>> ELSE <<>>

ALL_8_DIRECTIONS ==
    << <<0, 1>>, <<0, -1>>, <<1, 0>>, <<-1, 0>>,
       <<1, 1>>, <<1, -1>>, <<-1, 1>>, <<-1, -1>> >>

DIRECTIONS(t) ==
    CASE t = "b" -> SubSeq(ALL_8_DIRECTIONS, 5, 8)
      [] t = "r" -> SubSeq(ALL_8_DIRECTIONS, 1, 4)
      [] t = "q" -> ALL_8_DIRECTIONS
      [] OTHER   -> <<>>

\* A skewer on equal values too: the classification of C8 rules it out.
rayFindingOnEqual(piece, piecesOnRay, defense) ==
    IF Len(piecesOnRay) < 2 THEN <<>>
    ELSE IF piecesOnRay[1].color # piece.color /\ piecesOnRay[2].color # piece.color
         THEN <<Tactic(IF /\ PIECE_VALS[piecesOnRay[1].name] >= PIECE_VALS[piecesOnRay[2].name]
                          /\ defense \in {"defended", "overdefended"}
                       THEN "skewer" ELSE "pin",
                       piecesOnRay)>>
         ELSE <<>>

\* The finding of one scanned ray: none, a pin or a skewer.
rayFinding(piece, piecesOnRay, defense) ==
    LET firstPiece == piecesOnRay[1]
        secondPiece == piecesOnRay[2]
        piece1Value == PIECE_VALS[firstPiece.name]
        piece2Value == PIECE_VALS[secondPiece.name]
        tacticName == IF piece1Value > piece2Value /\ defense \in {"defended", "overdefended"}
                      THEN "skewer" ELSE "pin"
    IN IF Len(piecesOnRay) < 2 THEN <<>>
       ELSE IF firstPiece.color # piece.color /\ secondPiece.color # piece.color
            THEN <<Tactic(tacticName, <<firstPiece, secondPiece>>)>>
            ELSE <<>>

\* One direction of the pins & skewers loop.
rayTactic(f, pieceSquare, d, defense) ==
    rayFinding(get(load(f), pieceSquare),
               getPiecesAlongRay(load(f), pieceSquare, d[1], d[2], fen(load(f))),
               defense)

pinsAndSkewersOf(f, pieceSquare, defense) ==
    LET dirs == DIRECTIONS(get(load(f), pieceSquare).type)
    IN Flatten([i \in 1..Len(dirs) |-> rayTactic(f, pieceSquare, dirs[i], defense)])

\* moveInfo's results: a MoveEffect, null (empty square), or an exception
\* (new Chess(alterFen) rejects the FEN).
Null == [status |-> "null"]
Threw == [status |-> "threw"]
NoCall == [status |-> "none"]

\* The returned MoveEffect, from the matched move, the descriptor of the
\* queried piece, the scanned descriptors and the attacked pieces.
effectOf(pieceSquare, f, prevFen, moveObj, pieceEffect, effs, attacks) ==
    LET numAttackers == Len(pieceEffect.attackers)
        numDefenders == Len(pieceEffect.defenders)
        defense == defenseOf(numAttackers, numDefenders)
    IN [status        |-> "effect",
        piece         |-> pieceEffect,
        capturedPiece |-> IF moveObj # NoMove THEN capturedPieceOf(prevFen, moveObj)
                          ELSE NullPiece,
        tactics       |-> forksOf(attacks) \o pinsAndSkewersOf(f, pieceSquare, defense),
        attacks       |-> attacks,
        defends       |-> defendsOf(effs, pieceSquare),
        type          |-> typeOf(pieceSquare, f, prevFen, moveObj, numAttackers),
        defense       |-> defense,
        hangingPieces |-> hangingPiecesOf(f, effs)]

moveInfo(pieceSquare, f, prevFen) ==
    IF get(load(f), pieceSquare) = Empty THEN Null
    ELSE IF ~validFen(alterFenOf(f, get(load(f), pieceSquare).color)) THEN Threw
    ELSE effectOf(pieceSquare, f, prevFen,
                  IF prevFen # NoFen THEN findMove(f, prevFen) ELSE NoMove,
                  buildPieceInEffect(pieceSquare, f, 1),
                  scanEffects(f, pieceSquare),
                  attacksOf(f, pieceSquare))

(***************************************************************************)
(* index.ts: the BetterChess class                                         *)
(***************************************************************************)
\* The material ledger a new BetterChess starts with.
InitialMaterial ==
    [c \in Colors |-> [r |-> 2, n |-> 2, b |-> 2, q |-> 1, p |-> 8]]

Position(board, turn, castling, ep) ==
    [board |-> board, turn |-> turn, castling |-> castling, ep |-> ep]

\* A board from a list of <<file, rank, type, color>>.
Place(list) ==
    [n \in 1..64 |->
        IF \E i \in 1..Len(list) : Index(<<list[i][1], list[i][2]>>) = n
        THEN LET i == CHOOSE i \in 1..Len(list) : Index(<<list[i][1], list[i][2]>>) = n
             IN Piece(list[i][3], list[i][4])
        ELSE Empty]

BackRank == <<"r", "n", "b", "q", "k", "b", "n", "r">>

\* new BetterChess(): the standard initial position.
StartPosition ==
    Position([n \in 1..64 |->
                 LET s == <<((n - 1) % 8) + 1, ((n - 1) \div 8) + 1>>
                 IN CASE s[2] = 1 -> Piece(BackRank[s[1]], "w")
                      [] s[2] = 2 -> Piece("p", "w")
                      [] s[2] = 7 -> Piece("p", "b")
                      [] s[2] = 8 -> Piece(BackRank[s[1]], "b")
                      [] OTHER    -> Empty],
             "w", {"K", "Q", "k", "q"}, NoSquare)

\* super.move({from, to, promotion}): the legal move with that origin and
\* destination, and that promotion kind when it promotes.
matchingMoves(chess, args) ==
    SelectSeq(movesFrom(chess, args.from),
              LAMBDA m : /\ m.from = args.from
                         /\ m.to = args.to
                         /\ (m.promotion = "none" \/ m.promotion = args.promotion))

\* The promotion counted for the side to move after the move: the side of
\* C11's amended statement rules it out.
ledgerAfterForOpponent(ledger, turn, move, result) ==
    LET piece == result.capturedPiece
        m1 == IF piece # NullPiece
              THEN [ledger EXCEPT ![turn][piece.name] = @ - 1]
              ELSE ledger
    IN IF result.type = "promotion"
       THEN [m1 EXCEPT ![turn][move.promotion] = @ + 1]
       ELSE m1

\* The ledger after a call that returned the analysis `result`; `turn` is the
\* side to move after the move.
ledgerAfter(ledger, turn, move, result) ==
    LET piece == result.capturedPiece
        m1 == IF piece # NullPiece
              THEN [ledger EXCEPT ![turn][piece.name] = @ - 1]
              ELSE ledger
    IN IF result.type = "promotion"
       THEN [m1 EXCEPT ![IF turn = "w" THEN "b" ELSE "w"][move.promotion] = @ + 1]
       ELSE m1

\* The call's effect on the object once the move is made and analysed.
analysed(move, next, after, result) ==
    /\ pos' = next
    /\ history' = Append(history, [move |-> move, after |-> after])
    /\ analysis' = result
    /\ material' = IF result.status = "effect"
                   THEN ledgerAfter(material, next.turn, move, result)
                   ELSE material

\* move = super.move(...args), then moveInfo(move.to, move.after, move.before).
moved(move, next, after) == analysed(move, next, after, moveInfo(move.to, after, fen(pos)))

moveAndAnalyze(args) ==
    /\ matchingMoves(pos, args) # <<>>
    /\ moved(matchingMoves(pos, args)[1], makeMove(pos, matchingMoves(pos, args)[1]),
             fen(makeMove(pos, matchingMoves(pos, args)[1])))

getAnalysisAt(square) ==
    LET prev == IF Len(history) >= 2 THEN history[Len(history) - 1].after ELSE NoFen
    IN /\ analysis' = moveInfo(square, fen(pos), prev)
       /\ UNCHANGED <<pos, history, material>>

(***************************************************************************)
(* A game from the standard initial position                               *)
(***************************************************************************)
MaxPlies == 12

Args(f1, r1, f2, r2, promotion) ==
    [from |-> <<f1, r1>>, to |-> <<f2, r2>>, promotion |-> promotion]

\* The moves the players may try (any of them, at any time it is legal).
MoveInputs ==
    { Args(8, 2, 8, 4, "none"),   \* h2-h4
      Args(8, 4, 8, 5, "none"),   \* h4-h5
      Args(8, 5, 7, 6, "none"),   \* h5xg6 en passant
      Args(8, 4, 7, 5, "none"),   \* h4xg5
      Args(7, 5, 7, 6, "none"),   \* g5-g6
      Args(7, 6, 7, 7, "none"),   \* g6-g7
      Args(7, 7, 6, 8, "q"),      \* g7xf8=Q
      Args(7, 7, 8, 8, "n"),      \* g7xh8=N
      Args(1, 2, 1, 3, "none"),   \* a2-a3
      Args(4, 7, 4, 6, "none"),   \* d7-d6
      Args(7, 7, 7, 5, "none"),   \* g7-g5
      Args(3, 8, 7, 4, "none"),   \* Bc8-g4
      Args(7, 4, 5, 2, "none"),   \* Bg4xe2
      Args(5, 8, 6, 8, "none"),   \* Ke8xf8
      Args(5, 2, 4, 1, "none") }  \* Be2xd1

QueryInputs == { <<7, 7>>, <<5, 2>>, <<5, 5>> }

Init ==
    /\ pos = StartPosition
    /\ history = <<>>
    /\ material = InitialMaterial
    /\ analysis = NoCall

Next ==
    \/ \E args \in MoveInputs : Len(history) < MaxPlies /\ moveAndAnalyze(args)
    \/ \E square \in QueryInputs : getAnalysisAt(square)

Spec == Init /\ [][Next]_vars

(***************************************************************************)
(* Games from positions loaded from a FEN: new BetterChess(fen)            *)
(***************************************************************************)
MaxFenPlies == 1

NoRights == {}

\* The positions a game may be loaded from.
FenInputs ==
    { \* 4k3/8/5n2/3p4/4P1b1/5N2/8/3QK3 w - -   (bishop g4 pins f3 against d1)
      Position(Place(<< <<5, 1, "k", "w">>, <<4, 1, "q", "w">>, <<6, 3, "n", "w">>,
                        <<5, 4, "p", "w">>, <<5, 8, "k", "b">>, <<7, 4, "b", "b">>,
                        <<6, 6, "n", "b">>, <<4, 5, "p", "b">> >>),
               "w", NoRights, NoSquare),
      \* 5r1k/8/8/5q2/8/8/8/5RK1 b - -          (rook f1 faces queen f5, rook f8)
      Position(Place(<< <<7, 1, "k", "w">>, <<6, 1, "r", "w">>, <<6, 5, "q", "b">>,
                        <<6, 8, "r", "b">>, <<8, 8, "k", "b">> >>),
               "b", NoRights, NoSquare),
      \* k7/8/PK6/8/8/8/8/8 w - -               (a6-a7 stalemates)
      Position(Place(<< <<2, 6, "k", "w">>, <<1, 6, "p", "w">>, <<1, 8, "k", "b">> >>),
               "w", NoRights, NoSquare),
      \* 7r/6P1/2k5/8/8/8/8/4K3 w - -           (pawn g7 promotes on g8 or h8)
      Position(Place(<< <<5, 1, "k", "w">>, <<7, 7, "p", "w">>, <<3, 6, "k", "b">>,
                        <<8, 8, "r", "b">> >>),
               "w", NoRights, NoSquare),
      \* 4k3/8/8/3pP3/8/8/8/4K3 w - d6          (e5xd6 en passant is legal)
      Position(Place(<< <<5, 1, "k", "w">>, <<5, 5, "p", "w">>, <<5, 8, "k", "b">>,
                        <<4, 5, "p", "b">> >>),
               "w", NoRights, <<4, 6>>),
      \* r3k3/2N5/8/8/8/8/8/6K1 b - -           (knight c7 forks a8 and e8)
      Position(Place(<< <<7, 1, "k", "w">>, <<3, 7, "n", "w">>, <<5, 8, "k", "b">>,
                        <<1, 8, "r", "b">> >>),
               "b", NoRights, NoSquare),
      \* 6k1/1b6/1p6/8/8/6P1/6B1/6K1 w - -      (fianchettoed bishops g2 and b7)
      Position(Place(<< <<7, 1, "k", "w">>, <<7, 2, "b", "w">>, <<7, 3, "p", "w">>,
                        <<7, 8, "k", "b">>, <<2, 7, "b", "b">>, <<2, 6, "p", "b">> >>),
               "w", NoRights, NoSquare),
      \* 4k3/8/8/8/8/8/7p/R3K2R w KQ - -        (white may castle either side)
      Position(Place(<< <<5, 1, "k", "w">>, <<1, 1, "r", "w">>, <<8, 1, "r", "w">>,
                        <<5, 8, "k", "b">>, <<8, 2, "p", "b">> >>),
               "w", {"K", "Q"}, NoSquare) }

InitFen ==
    /\ pos \in FenInputs
    /\ history = <<>>
    /\ material = InitialMaterial
    /\ analysis = NoCall

ArgsOf(m) == [from |-> m.from, to |-> m.to, promotion |-> m.promotion]

NextFen ==
    \/ /\ Len(history) < MaxFenPlies
       /\ \E args \in {ArgsOf(m) : m \in SeqToSet(moves(pos))} : moveAndAnalyze(args)
    \/ \E square \in Squares : getAnalysisAt(square)

SpecFen == InitFen /\ [][NextFen]_vars

(***************************************************************************)
(* moveInfo as a function of the position: analyses of loaded positions    *)
(***************************************************************************)
\* A white bishop, rook or queen on d4 with two pieces on a line through it
\* (the rank to the east, or the diagonal to the north-east), with or
\* without a pawn on c3 behind it.
LinePieces ==
    [kind : {"b", "r", "q"}, line : {"rank", "diagonal"},
     front : {"p", "n", "q"}, frontColor : Colors,
     back : {"b", "r", "none"}, backColor : Colors,
     guarded : BOOLEAN]

LinePosition(x) ==
    LET frontSquare == IF x.line = "rank" THEN <<6, 4>> ELSE <<6, 6>>
        backSquare  == IF x.line = "rank" THEN <<8, 4>> ELSE <<8, 8>>
    IN Position(Place(<< <<2, 1, "k", "w">>, <<2, 7, "k", "b">>, <<4, 4, x.kind, "w">>,
                         <<frontSquare[1], frontSquare[2], x.front, x.frontColor>> >>
                      \o (IF x.back # "none"
                          THEN << <<backSquare[1], backSquare[2], x.back, x.backColor>> >>
                          ELSE <<>>)
                      \o (IF x.guarded THEN << <<3, 3, "p", "w">> >> ELSE <<>>)),
                "w", NoRights, NoSquare)

InfoInputs ==
    FenInputs \cup {LinePosition(x) : x \in {y \in LinePieces : y.back # "none" \/ y.backColor = "w"}}

InitInfo ==
    /\ pos \in InfoInputs
    /\ history = <<>>
    /\ material = InitialMaterial
    /\ analysis = NoCall

NextInfo == \E square \in Squares : getAnalysisAt(square)

SpecInfo == InitInfo /\ [][NextInfo]_vars

(***************************************************************************)
(* _getPiecesAlongRay as a function of position, start square and direction *)
(***************************************************************************)
RayInputs == FenInputs \cup {StartPosition}

InitRay ==
    /\ pos \in RayInputs
    /\ history = <<>>
    /\ material = InitialMaterial
    /\ analysis = NoCall

\* One call _getPiecesAlongRay(chess, startSquare, dx, dy, chess.fen()).
RayScan(startSquare, d) ==
    /\ analysis' = [status |-> "ray", start |-> startSquare, direction |-> d,
                    piecesOnRay |-> getPiecesAlongRay(load(pos), startSquare,
                                                      d[1], d[2], fen(load(pos)))]
    /\ UNCHANGED <<pos, history, material>>

NextRay == \E startSquare \in Squares : \E d \in SeqToSet(ALL_8_DIRECTIONS) : RayScan(startSquare, d)

SpecRay == InitRay /\ [][NextRay]_vars

(***************************************************************************)
(* Claims                                                                  *)
(***************************************************************************)
Kinds == {"p", "n", "b", "r", "q"}

\* A step is a moveAndAnalyze call that returned a MoveEffect.
MoveReturned == Len(history') = Len(history) + 1 /\ analysis'.status = "effect"

LastMove == history[Len(history)].move

\* C1: every count of the material ledger is >= 0 after any sequence of
\* successful moveAndAnalyze calls from the standard initial position.
C1_MaterialNonNegative ==
    \A c \in Colors : \A k \in Kinds : material[c][k] >= 0

\* C2: a successful moveAndAnalyze call whose move is a promotion raises the
\* mover's count of the promoted-to kind by exactly one.
C2_PromotionCounted ==
    [][(MoveReturned /\ LastMove'.promotion # "none")
        => material'[LastMove'.color][LastMove'.promotion]
             = material[LastMove'.color][LastMove'.promotion] + 1]_vars

\* C3: a successful moveAndAnalyze call whose move captures a piece lowers the
\* losing side's count of the captured kind by exactly one and lowers no
\* count of the capturing side.
C3_CaptureCounted ==
    [][(MoveReturned /\ LastMove'.captured # "none")
        => /\ material'[swapColor(LastMove'.color)][LastMove'.captured]
                = material[swapColor(LastMove'.color)][LastMove'.captured] - 1
           /\ \A k \in Kinds :
                material'[LastMove'.color][k] >= material[LastMove'.color][k]]_vars

(***************************************************************************)
(* Claims about the analysis returned for the current position             *)
(***************************************************************************)
Returned == analysis.status = "effect"

\* The queried square of the last analysis.
Queried == analysis.piece.at

Occupied(s) == pieceAt(pos.board, s) # Empty

ColorAt(s) == pieceAt(pos.board, s).color

\* The squares whose piece attacks s, whatever its colour.
AttackingSquares(s) ==
    {from \in Squares : pieceAt(pos.board, from) # Empty /\ PieceAttacks(pos.board, from, s)}

Squares_(list) == {list[i].at : i \in 1..Len(list)}

\* The depth-0 descriptor of the piece on s.
Plain(s) ==
    PieceInEffect(s, pieceAt(pos.board, s).type, pieceAt(pos.board, s).color, <<>>, <<>>)

\* C4: the attackers and defenders of the resolved piece are disjoint, together
\* they are as many as the squares attacking it, and an entry is a defender
\* exactly when its colour is the colour of the piece on the square.
C4_Partition ==
    Returned =>
        LET e == analysis.piece
            entries == e.attackers \o e.defenders
        IN /\ Squares_(e.attackers) \cap Squares_(e.defenders) = {}
           /\ Len(e.attackers) + Len(e.defenders) = Cardinality(AttackingSquares(e.at))
           /\ Squares_(entries) = AttackingSquares(e.at)
           /\ \A i \in 1..Len(entries) : entries[i] = Plain(entries[i].at)
           /\ \A i \in 1..Len(e.defenders) : e.defenders[i].color = ColorAt(e.at)
           /\ \A i \in 1..Len(e.attackers) : e.attackers[i].color # ColorAt(e.at)

\* C4's case: a resolved piece with an attacker and a defender.
C4_Witness ==
    Returned /\ Len(analysis.piece.attackers) > 0 /\ Len(analysis.piece.defenders) > 0

Flat(e) == e.attackers = <<>> /\ e.defenders = <<>>

AllFlat(list) == \A i \in 1..Len(list) : Flat(list[i])

NestedFlat(e) == AllFlat(e.attackers) /\ AllFlat(e.defenders)

\* C5: in a returned MoveEffect every descriptor nested in an attackers or
\* defenders list, and every descriptor resolved at depth 0 (the captured
\* piece, the attacks, the tactic targets), has empty lists of its own.
C5_DepthOne ==
    Returned =>
        /\ NestedFlat(analysis.piece)
        /\ \A i \in 1..Len(analysis.defends) : NestedFlat(analysis.defends[i])
        /\ \A c \in Colors : \A i \in 1..Len(analysis.hangingPieces[c]) :
              NestedFlat(analysis.hangingPieces[c][i])
        /\ Flat(analysis.capturedPiece)
        /\ AllFlat(analysis.attacks)
        /\ \A i \in 1..Len(analysis.tactics) : AllFlat(analysis.tactics[i].targets)

\* C5's case: a capture whose mover is attacked, attacks pieces that are
\* themselves attacked or defended, with a tactic found and, elsewhere on the
\* board, a piece it defends or a hanging piece.
C5_Witness ==
    /\ Returned
    /\ analysis.capturedPiece # NullPiece
    /\ AttackingSquares(analysis.capturedPiece.at) # {}
    /\ Len(analysis.piece.attackers) > 0
    /\ \E i \in 1..Len(analysis.attacks) : AttackingSquares(analysis.attacks[i].at) # {}
    /\ Len(analysis.tactics) > 0
    /\ Len(analysis.defends) + Len(analysis.hangingPieces["w"])
         + Len(analysis.hangingPieces["b"]) > 0

\* The opposing pieces standing on the legal destinations of the queried
\* piece when its own side is to move.
AttackedSquares ==
    LET mine == ColorAt(Queried)
        ms == movesFrom([fen(pos) EXCEPT !.turn = mine], Queried)
    IN {ms[i].to : i \in 1..Len(ms)} \cap {s \in Squares : ColorAt(s) = swapColor(mine)}

ForkFindings == SelectSeq(analysis.tactics, LAMBDA t : t.tactic = "fork")

\* C6: a queried piece attacking two or more opposing pieces yields exactly
\* one fork finding with as many targets as attacked pieces; attacking none
\* or one yields no fork finding.
C6_Fork ==
    Returned =>
        IF Cardinality(AttackedSquares) >= 2
        THEN /\ Len(ForkFindings) = 1
             /\ Len(ForkFindings[1].targets) = Cardinality(AttackedSquares)
        ELSE ForkFindings = <<>>

TimesListed(list, s) == Cardinality({i \in 1..Len(list) : list[i].at = s})

\* s holds a piece with an attacker of the other colour and no defender of its own.
HangingAt(s) ==
    /\ Occupied(s)
    /\ \E from \in AttackingSquares(s) : ColorAt(from) # ColorAt(s)
    /\ \A from \in AttackingSquares(s) : ColorAt(from) # ColorAt(s)

\* C7: a piece off the queried square is listed in hangingPieces[c] exactly
\* when c is its colour and it has an attacker and no defender, and then once;
\* the queried piece is never listed.
C7_HangingCensus ==
    Returned =>
        \A s \in Squares : \A c \in Colors :
            TimesListed(analysis.hangingPieces[c], s)
                = IF s # Queried /\ HangingAt(s) /\ c = ColorAt(s) THEN 1 ELSE 0

\* C7's case: a hanging piece is listed, another attacked piece is defended
\* and not listed, and the queried piece itself hangs.
C7_Witness ==
    /\ Returned
    /\ HangingAt(Queried)
    /\ \E s \in Squares : s # Queried /\ HangingAt(s)
    /\ \E s \in Squares :
          /\ s # Queried /\ Occupied(s) /\ ~HangingAt(s)
          /\ \E from \in AttackingSquares(s) : ColorAt(from) # ColorAt(s)

\* The k-th square from s in direction d.
RayK(s, d, k) == <<s[1] + k * d[1], s[2] + k * d[2]>>

\* The distances at which the ray from s in direction d meets a piece.
OccupiedOnRay(s, d) ==
    {k \in 1..7 : OnBoard(RayK(s, d, k)[1], RayK(s, d, k)[2]) /\ Occupied(RayK(s, d, k))}

Nearest(ks) == CHOOSE k \in ks : \A j \in ks : k <= j

\* The first and the second occupied square of the ray.
Front(s, d) == RayK(s, d, Nearest(OccupiedOnRay(s, d)))

Back(s, d) ==
    RayK(s, d, Nearest(OccupiedOnRay(s, d) \ {Nearest(OccupiedOnRay(s, d))}))

\* The ray from s in direction d meets two pieces first, both of the other colour.
TwoOpposing(s, d) ==
    /\ Cardinality(OccupiedOnRay(s, d)) >= 2
    /\ ColorAt(Front(s, d)) # ColorAt(s)
    /\ ColorAt(Back(s, d)) # ColorAt(s)

Value(s) == PIECE_VALS[pieceAt(pos.board, s).type]

\* The finding the queried piece should yield in direction d.
LineFinding(d) ==
    Tactic(IF /\ Value(Front(Queried, d)) > Value(Back(Queried, d))
              /\ analysis.defense \in {"defended", "overdefended"}
           THEN "skewer" ELSE "pin",
           <<Plain(Front(Queried, d)), Plain(Back(Queried, d))>>)

\* The directions of the queried piece's kind: diagonals for a bishop,
\* orthogonals for a rook, all eight for a queen, none for the others.
KindDirections ==
    LET t == analysis.piece.name
        orthogonal == {d \in (-1..1) \X (-1..1) : Abs(d[1]) + Abs(d[2]) = 1}
        diagonal   == {d \in (-1..1) \X (-1..1) : Abs(d[1]) + Abs(d[2]) = 2}
    IN (IF t \in {"r", "q"} THEN orthogonal ELSE {})
       \cup (IF t \in {"b", "q"} THEN diagonal ELSE {})

LineFindings == SelectSeq(analysis.tactics, LAMBDA t : t.tactic \in {"pin", "skewer"})

\* C8: the pin and skewer findings of a queried bishop, rook or queen are, one
\* for one, the directions of its kind whose first two occupied squares hold
\* opposing pieces; each has the targets [front, back] and is a skewer exactly
\* when the front piece is worth more than the back piece and the queried
\* piece is defended or overdefended; other kinds yield no such finding.
C8_PinSkewer ==
    Returned =>
        LET dirs == {d \in KindDirections : TwoOpposing(Queried, d)}
        IN /\ SeqToSet(LineFindings) = {LineFinding(d) : d \in dirs}
           /\ Len(LineFindings) = Cardinality(dirs)

\* C8's case: a defended queried piece skewers a queen in front of a lesser piece.
C8_Witness ==
    /\ Returned
    /\ analysis.defense \in {"defended", "overdefended"}
    /\ \E d \in KindDirections :
          /\ TwoOpposing(Queried, d)
          /\ Value(Front(Queried, d)) > Value(Back(Queried, d))
          /\ LineFinding(d).tactic = "skewer"
          /\ LineFinding(d) \in SeqToSet(analysis.tactics)

\* C9: a ray scan returns at most two descriptors: the nearest occupied
\* square of the ray, then the second nearest if there is one, each on the
\* board, off the start square and strictly farther than the one before.
C9_RayScan ==
    analysis.status = "ray" =>
        LET s == analysis.start
            d == analysis.direction
            r == analysis.piecesOnRay
            ks == OccupiedOnRay(s, d)
        IN /\ Len(r) <= 2
           /\ Len(r) = IF Cardinality(ks) >= 2 THEN 2 ELSE Cardinality(ks)
           /\ Len(r) >= 1 => r[1].at = Front(s, d)
           /\ Len(r) >= 2 => r[2].at = Back(s, d)
           /\ \A i \in 1..Len(r) :
                 /\ r[i].at \in Squares
                 /\ r[i].at # s
                 /\ \E k \in 1..7 :
                       /\ r[i].at = RayK(s, d, k)
                       /\ i > 1 => \E j \in 1..(k - 1) : r[i - 1].at = RayK(s, d, j)

\* C9's case: a scan from an occupied square over a ray holding three pieces.
C9_Witness ==
    /\ analysis.status = "ray"
    /\ Occupied(analysis.start)
    /\ Cardinality(OccupiedOnRay(analysis.start, analysis.direction)) >= 3
    /\ Len(analysis.piecesOnRay) = 2

\* C10: in a stalemate position a queried piece that is not a fianchetto
\* bishop is tagged 'stalemate', attacked or not.
C10_StalematePriority ==
    (Returned /\ isStalemate(pos) /\ ~isFianchetto(pos, Queried))
        => analysis.type = "stalemate"

(***************************************************************************)
(* Claims about the side of the promotion count                            *)
(***************************************************************************)
\* A moveAndAnalyze step that raises the count of kind k of side c.
Incremented(c, k) ==
    Len(history') = Len(history) + 1 /\ material'[c][k] > material[c][k]

\* C11: whenever moveAndAnalyze raises a ledger count for a promotion, the
\* count belongs to the opponent of the side that made the promoting move.
C11_OpponentIncremented ==
    [][\A c \in Colors : \A k \in Kinds :
          Incremented(c, k) => c = swapColor(LastMove'.color)]_vars

\* C11 amended: whenever moveAndAnalyze raises a ledger count, the move is a
\* promotion to that kind, the count rises by one, and it belongs to the side
\* that made the promoting move.
C11_MoverIncremented ==
    [][\A c \in Colors : \A k \in Kinds :
          Incremented(c, k) => /\ c = LastMove'.color
                               /\ k = LastMove'.promotion
                               /\ material'[c][k] = material[c][k] + 1]_vars

\* C11's case: a promotion has been counted in the ledger.
C11_Witness ==
    /\ Len(history) > 0
    /\ LastMove.promotion # "none"
    /\ analysis.status = "effect" /\ analysis.type = "promotion"
    /\ material[LastMove.color][LastMove.promotion]
          = InitialMaterial[LastMove.color][LastMove.promotion] + 1

(***************************************************************************)
(* Claims about the en passant tag                                         *)
(***************************************************************************)
\* C12: a moveAndAnalyze call whose move is an en passant capture (flag 'e',
\* the captured pawn reported on the move) that gives no check, does not
\* stalemate and leaves the moved pawn unattacked returns type 'enPassant'.
C12_EnPassantTag ==
    [][(/\ MoveReturned
        /\ "e" \in LastMove'.flags /\ LastMove'.captured = "p"
        /\ ~inCheck(pos') /\ ~isStalemate(pos')
        /\ Len(analysis'.piece.attackers) = 0)
        => analysis'.type = "enPassant"]_vars

(***************************************************************************)
(* Claims about the two entry points                                       *)
(***************************************************************************)
\* The last analysis is a MoveEffect for the destination of the last move.
AtLastMove(a) == a.status = "effect" /\ a.piece.at = LastMove.to

\* C13: once the analysis of the last move's destination square has been
\* returned, by moveAndAnalyze or by getAnalysisAt, a getAnalysisAt call on
\* that square returns the identical MoveEffect, the first recorded move
\* included, and changes neither the position nor the ledger.
C13_EntryPointsAgree ==
    [][(/\ Len(history) > 0 /\ history' = history
        /\ AtLastMove(analysis) /\ AtLastMove(analysis'))
        => analysis' = analysis /\ pos' = pos /\ material' = material]_vars

====
